---- MODULE Spec2Model ----
(***************************************************************************)
(* A model of src/streamlit_app.py: the citation extractors                *)
(* (extract_file_ids_from_responses, extract_file_ids_from_messages), the  *)
(* query dispatch of the Ask tab (ask_with_responses, falling back to      *)
(* ask_with_assistants with its polling loop), list_vs_files, and the      *)
(* handlers of Summarize ALL and Refresh file list.                        *)
(*                                                                         *)
(* The specifications share the variables:                                 *)
(*   Spec         the Ask handler, one remote call per step;               *)
(*   SpecFair     Spec with a polling loop that goes on;                   *)
(*   SpecFiles    Summarize ALL and Refresh file list, one files.list or   *)
(*                files.retrieve call or one summarized file per step;     *)
(*   SpecApp      the three handlers together;                             *)
(*   SpecExtract  the two extractors applied to a bounded set of inputs.   *)
(***************************************************************************)
EXTENDS Integers, Sequences, FiniteSets, TLC

VARIABLES
    \* ---- the citation extractors (SpecExtract) ----
    exInput,    \* [form, arg]: which extractor is called, and its argument
    exState,    \* "ready" | "returned" | "raised"
    exOut,      \* the list the call returned
    \* ---- the script run a button click starts ----
    handler,    \* "none" | "ask" | "all" | "files": the button whose handler runs or ran last
    env,        \* os.environ: [key, vs], "" when the entry is not set
    question,   \* the text of the question input, a sequence of characters
    dispatches, \* number of button clicks so far
    remote,     \* what exists on the remote service: [workers, threads, messages, runs]
    past,       \* the earlier dispatches: [invoked, pastRun], how many started the
                \* secondary protocol and how many of these polled a run
    \* ---- the Ask handler (Spec) ----
    pc,         \* position of the handler
    attempts,   \* primary requests issued in this dispatch, in order: [shape, outcome]
    resp,       \* what the successful primary request returned (None before)
    secLog,     \* secondary-protocol calls issued in this dispatch, in order (polls excepted)
    polls,      \* runs.retrieve calls issued in this dispatch
    now,        \* time.time(), in ticks since the dispatch began
    deadline,   \* local variable deadline of ask_with_assistants (ticks)
    sleep_s,    \* local variable sleep_s of ask_with_assistants (ticks)
    nsleeps,    \* time.sleep calls made in this dispatch
    lastSleep,  \* the interval the latest time.sleep call was given (ticks)
    delays,     \* remote or scheduling delays this dispatch has met
    runStatus,  \* the run's status on the remote service
    status,     \* run.status as the latest runs.retrieve returned it
    termInTime, \* the remote run turned terminal while now <= deadline
    msgs,       \* what messages.list returned (None before)
    outcome,    \* what the handler showed: [kind, via, answer, file_ids, err]
    \* ---- list_vs_files and the handlers of Summarize ALL and Files (SpecFiles) ----
    store,      \* the identifiers of the files in the remote vector store, in its order
    after,      \* local variable after of list_vs_files: None or the cursor
    files,      \* local variable files of list_vs_files: the entries accumulated
    requests,   \* the files.list requests issued, in order: [limit, after]
    pages,      \* the pages these requests returned: [data, has_more, last_id]
    lookups,    \* the files.retrieve calls of list_vs_files, in order: [id, raised, filename]
    out,        \* local variable out of list_vs_files: the (id, name) pairs
    dispatched, \* the dispatches of the batch, in order: [fid, ok]
    results_md, \* local variable results_md of the batch
    errors,     \* the per-file error messages the batch showed
    progress,   \* the values given to progress.progress, as <<idx, total>> for idx / total
    report      \* the data of the download button (None when it is not shown)

exVars == <<exInput, exState, exOut>>
appVars == <<handler, env, question, dispatches, remote, past>>
filesVars == <<store, after, files, requests, pages, lookups, out, dispatched, results_md,
               errors, progress, report>>
askVars == <<pc, attempts, resp, secLog, polls, now, deadline, sleep_s,
             nsleeps, lastSleep, delays, runStatus, status, termInTime, msgs, outcome>>
vars == <<exInput, exState, exOut, handler, env, question, dispatches, remote, past,
          pc, attempts, resp, secLog, polls, now,
          deadline, sleep_s, nsleeps, lastSleep, delays, runStatus, status, termInTime,
          msgs, outcome, store, after, files, requests, pages, lookups, out, dispatched,
          results_md, errors, progress, report>>

----------------------------------------------------------------------------
(* Bounds of the model. *)

\* files in the remote vector store
MaxFiles == 2

\* entries the service puts into one page of a listing
MaxPage == 1

\* annotations of one content item
MaxAnns == 2
\* messages of a message list, blocks of a response
MaxEntries == 2
\* Ask clicks
MaxDispatches == 2
\* long delays (of a remote call or of a sleep) met by one dispatch
MaxDelays == 2

----------------------------------------------------------------------------
(* Python values.  An object is Obj(r), r a record of its attributes; an   *)
(* attribute the object does not have is Absent.  Lists are sequences.     *)
(* Num stands for a value that is truthy, not iterable and without         *)
(* attributes (a number).  Strings stand for themselves only as attribute  *)
(* values; no list of the inputs is a string.                              *)

Absent == [k |-> "absent"]
None == [k |-> "none"]
Num == [k |-> "int"]
Str(s) == [k |-> "str", v |-> s]
List(s) == [k |-> "list", v |-> s]
Obj(r) == [k |-> "obj", v |-> r]

Range(s) == {s[i] : i \in 1..Len(s)}

\* o.name does not raise AttributeError
HasAttr(o, name) == o.k = "obj" /\ name \in DOMAIN o.v /\ o.v[name].k # "absent"

\* getattr(o, name, default)
GetAttr(o, name, default) == IF HasAttr(o, name) THEN o.v[name] ELSE default

\* bool(x)
Truthy(x) ==
    CASE x.k = "none" -> FALSE
      [] x.k = "absent" -> FALSE
      [] x.k = "str" -> x.v # ""
      [] x.k = "list" -> x.v # <<>>
      [] OTHER -> TRUE

\* (x or [])
OrEmpty(x) == IF Truthy(x) THEN x ELSE List(<<>>)

\* x == s, s a string literal
IsStr(x, s) == x.k = "str" /\ x.v = s

----------------------------------------------------------------------------
(* The walk of an extractor's try block: the identifiers handed to         *)
(* file_ids.add, in call order, and whether an exception ended the walk.   *)

Ok(ids) == [ids |-> ids, exc |-> FALSE]
Raise == [ids |-> <<>>, exc |-> TRUE]

\* statement a, then statement b unless a raised
Then(a, b) == IF a.exc THEN a ELSE [ids |-> a.ids \o b.ids, exc |-> b.exc]

\* if fid: file_ids.add(fid)  (an identifier is a string when it is there at all)
Add(fid) ==
    IF ~Truthy(fid) THEN Ok(<<>>)
    ELSE IF fid.k = "str" THEN Ok(<<fid.v>>)
    ELSE Raise

\* extract_file_ids_from_responses, lines 146-149: one annotation
AnnResponses(ann) ==
    IF IsStr(GetAttr(ann, "type", None), "file_citation")
    THEN LET fc == GetAttr(ann, "file_citation", None)
             fid == IF Truthy(fc) THEN GetAttr(fc, "file_id", None) ELSE None
         IN  Add(fid)
    ELSE Ok(<<>>)

RECURSIVE AnnsResponses(_, _)
AnnsResponses(anns, i) ==
    IF i > Len(anns) THEN Ok(<<>>)
    ELSE Then(AnnResponses(anns[i]), AnnsResponses(anns, i + 1))

\* lines 144-145: one content item of a message block
ItemResponses(c) ==
    IF IsStr(GetAttr(c, "type", None), "output_text")
    THEN LET anns == OrEmpty(GetAttr(c, "annotations", List(<<>>)))
         IN  IF anns.k # "list" THEN Raise ELSE AnnsResponses(anns.v, 1)
    ELSE Ok(<<>>)

RECURSIVE ItemsResponses(_, _)
ItemsResponses(items, i) ==
    IF i > Len(items) THEN Ok(<<>>)
    ELSE Then(ItemResponses(items[i]), ItemsResponses(items, i + 1))

\* lines 142-143: one output block (block.type, block.message.content are plain accesses)
BlockResponses(block) ==
    IF ~HasAttr(block, "type") THEN Raise
    ELSE IF ~IsStr(block.v.type, "message") THEN Ok(<<>>)
    ELSE IF ~HasAttr(block, "message") THEN Raise
    ELSE IF ~HasAttr(block.v.message, "content") THEN Raise
    ELSE LET content == OrEmpty(block.v.message.v.content)
         IN  IF content.k # "list" THEN Raise ELSE ItemsResponses(content.v, 1)

RECURSIVE BlocksResponses(_, _)
BlocksResponses(blocks, i) ==
    IF i > Len(blocks) THEN Ok(<<>>)
    ELSE Then(BlockResponses(blocks[i]), BlocksResponses(blocks, i + 1))

\* lines 141-149: the body of the try
WalkResponses(r) ==
    IF ~HasAttr(r, "output") THEN Raise
    ELSE IF r.v.output.k # "list" THEN Raise
    ELSE BlocksResponses(r.v.output.v, 1)

\* extract_file_ids_from_messages, lines 162-164: one annotation
\* (ann.file_citation is a plain access)
AnnMessagesAnyKind(ann) ==
    IF ~HasAttr(ann, "file_citation") THEN Raise
    ELSE Add(GetAttr(ann.v.file_citation, "file_id", None))
AnnMessages(ann) ==
    IF IsStr(GetAttr(ann, "type", None), "file_citation")
    THEN IF ~HasAttr(ann, "file_citation") THEN Raise
         ELSE Add(GetAttr(ann.v.file_citation, "file_id", None))
    ELSE Ok(<<>>)

RECURSIVE AnnsMessages(_, _)
AnnsMessages(anns, i) ==
    IF i > Len(anns) THEN Ok(<<>>)
    ELSE Then(AnnMessages(anns[i]), AnnsMessages(anns, i + 1))

\* lines 160-161: one content item (item.text is a plain access)
ItemMessages(item) ==
    IF IsStr(GetAttr(item, "type", None), "text")
    THEN IF ~HasAttr(item, "text") THEN Raise
         ELSE LET anns == OrEmpty(GetAttr(item.v.text, "annotations", List(<<>>)))
              IN  IF anns.k # "list" THEN Raise ELSE AnnsMessages(anns.v, 1)
    ELSE Ok(<<>>)

RECURSIVE ItemsMessages(_, _)
ItemsMessages(items, i) ==
    IF i > Len(items) THEN Ok(<<>>)
    ELSE Then(ItemMessages(items[i]), ItemsMessages(items, i + 1))

\* lines 158-159: one message (msg.content is a plain access)
MsgMessages(msg) ==
    IF ~IsStr(GetAttr(msg, "role", Str("")), "assistant") THEN Ok(<<>>)
    ELSE IF ~HasAttr(msg, "content") THEN Raise
    ELSE LET content == OrEmpty(msg.v.content)
         IN  IF content.k # "list" THEN Raise ELSE ItemsMessages(content.v, 1)

RECURSIVE MsgsMessages(_, _)
MsgsMessages(ml, i) ==
    IF i > Len(ml) THEN Ok(<<>>)
    ELSE Then(MsgMessages(ml[i]), MsgsMessages(ml, i + 1))

\* lines 157-164: the body of the try
WalkMessages(messages_list) ==
    IF messages_list.k # "list" THEN Raise
    ELSE MsgsMessages(messages_list.v, 1)

\* try: <walk> except Exception: pass -- what was added before the exception stays
\* in file_ids; without the try the exception leaves the function
NoTry(w) == [raised |-> w.exc, file_ids |-> Range(w.ids)]
TryExceptPass(w) == [raised |-> FALSE, file_ids |-> Range(w.ids)]

\* lines 138-152, up to the set file_ids of the return statement
extract_file_ids_from_responses(r) == TryExceptPass(WalkResponses(r))

\* lines 154-167, up to the set file_ids of the return statement
extract_file_ids_from_messages(messages_list) == TryExceptPass(WalkMessages(messages_list))

\* list(file_ids): a set of strings iterates in the order of its hash table, and
\* str hashes are salted per process: every order of the elements can come out
ListOfSet(S) == {s \in [1..Cardinality(S) -> S] : Range(s) = S}

----------------------------------------------------------------------------
(* The inputs of the extractors.  f1 and f2 are cited; f3 is carried only  *)
(* by annotations, items and messages the extractors must pass over.       *)

Annotation(type, file_citation) == Obj([type |-> type, file_citation |-> file_citation])
Citation(file_id) == Obj([file_id |-> file_id])

Cite(f) == Annotation(Str("file_citation"), Citation(Str(f)))
OtherKind == Annotation(Str("file_path"), Citation(Str("f3")))
NoKind == Annotation(Absent, Citation(Str("f3")))
NoCitation == Annotation(Str("file_citation"), Absent)
NullCitation == Annotation(Str("file_citation"), None)
NoId == Annotation(Str("file_citation"), Citation(Absent))
NullId == Annotation(Str("file_citation"), Citation(None))
EmptyId == Annotation(Str("file_citation"), Citation(Str("")))

AnnShapes ==
    {Cite("f1"), Cite("f2"), OtherKind, NoKind, NoCitation, NullCitation, NoId, NullId,
     EmptyId}

AnnLists == UNION {[1..n -> AnnShapes] : n \in 0..MaxAnns}

\* a content item of a thread message, and a thread message
TextItem(value, annotations) ==
    Obj([type |-> Str("text"), text |-> Obj([value |-> value, annotations |-> annotations])])
Message(role, content) == Obj([role |-> role, content |-> content])

MsgShapes ==
    {Message(Str("assistant"), List(<<TextItem(Str("a"), List(<<Cite("f1")>>))>>)),
     Message(Str("assistant"), List(<<TextItem(Str("b"), List(<<Cite("f2")>>))>>)),
     Message(Str("assistant"),
             List(<<TextItem(Str("c"), List(<<Cite("f2"), OtherKind, Cite("f1")>>))>>)),
     Message(Str("assistant"), List(<<TextItem(Str("a"), List(<<NoCitation>>))>>)),
     Message(Str("assistant"), List(<<TextItem(Str("a"), List(<<OtherKind>>))>>)),
     Message(Str("user"), List(<<TextItem(Str("q"), List(<<Cite("f3")>>))>>)),
     Message(Absent, List(<<TextItem(Str("q"), List(<<Cite("f3")>>))>>)),
     Message(Str("assistant"), Absent),
     Message(Str("assistant"), None),
     Message(Str("assistant"), List(<<Obj([type |-> Str("image_file"),
         text |-> Obj([value |-> Str(""), annotations |-> List(<<Cite("f3")>>)])])>>)),
     Message(Str("assistant"), List(<<Obj([type |-> Str("text"), text |-> Absent])>>)),
     Message(Str("assistant"), List(<<Obj([type |-> Str("text"), text |-> None])>>)),
     Message(Str("assistant"), List(<<TextItem(Str("a"), Absent)>>)),
     Message(Str("assistant"), List(<<TextItem(Str("a"), None)>>)),
     Message(Str("assistant"), List(<<TextItem(Str("a"), Num)>>))}

MessagesInputs ==
    {List(<<Message(Str("assistant"), List(<<TextItem(Str("a"), List(l))>>))>>) : l \in AnnLists}
    \cup {List(ml) : ml \in UNION {[1..n -> MsgShapes] : n \in 0..MaxEntries}}
    \cup {None}

\* a content item of a message block, an output block, and a response
OutputText(annotations) == Obj([type |-> Str("output_text"), annotations |-> annotations])
Block(type, message) == Obj([type |-> type, message |-> message])
MessageBlock(content) == Block(Str("message"), Obj([content |-> content]))
Response(output_text, output) == Obj([output_text |-> output_text, output |-> output])

BlockShapes ==
    {MessageBlock(List(<<OutputText(List(<<Cite("f1")>>))>>)),
     MessageBlock(List(<<OutputText(List(<<Cite("f2")>>))>>)),
     MessageBlock(List(<<OutputText(List(<<Cite("f2"), OtherKind, Cite("f1")>>))>>)),
     MessageBlock(List(<<OutputText(List(<<NoCitation>>))>>)),
     MessageBlock(List(<<OutputText(List(<<OtherKind>>))>>)),
     Block(Str("file_search_call"), Absent),
     Block(Str("file_search_call"),
           Obj([content |-> List(<<OutputText(List(<<Cite("f3")>>))>>)])),
     Block(Absent, Obj([content |-> List(<<OutputText(List(<<Cite("f3")>>))>>)])),
     Block(Str("message"), Absent),
     Block(Str("message"), None),
     MessageBlock(Absent),
     MessageBlock(None),
     MessageBlock(List(<<Obj([type |-> Str("refusal"),
                              annotations |-> List(<<Cite("f3")>>)])>>)),
     MessageBlock(List(<<OutputText(Absent)>>)),
     MessageBlock(List(<<OutputText(None)>>)),
     MessageBlock(List(<<OutputText(Num)>>))}

ResponsesInputs ==
    {Response(Str("a"), List(<<MessageBlock(List(<<OutputText(List(l))>>))>>)) : l \in AnnLists}
    \cup {Response(Str("a"), List(bl)) : bl \in UNION {[1..n -> BlockShapes] : n \in 0..MaxEntries}}
    \cup {None, Response(Str("a"), Absent), Response(Str("a"), None)}

ExtractInputs ==
    {[form |-> "responses", arg |-> r] : r \in ResponsesInputs}
    \cup {[form |-> "messages", arg |-> m] : m \in MessagesInputs}

\* the call of the extractor that exInput names
Extract(in) ==
    IF in.form = "responses" THEN extract_file_ids_from_responses(in.arg)
    ELSE extract_file_ids_from_messages(in.arg)

----------------------------------------------------------------------------
(* The Ask handler (tab_ask, lines 268-302): the validation, then           *)
(* ask_with_responses, and ask_with_assistants when it raises.  One step is *)
(* one blocking call with the code that follows it up to the next blocking  *)
(* call.                                                                    *)

\* time is counted in ticks of 1/256 s: 0.75 * 1.5^n is a whole number of ticks
\* for every n the loop reaches before the cap (float arithmetic is exact on them)
TicksPerSecond == 2 ^ 8

\* line 229: deadline = time.time() + 60 * 6
RunDeadline == 60 * 6 * TicksPerSecond

\* line 230: sleep_s = 0.75
InitialSleep == (3 * TicksPerSecond) \div 4

\* line 235: sleep_s = min(sleep_s * 1.5, 6.0)
Min(a, b) == IF a <= b THEN a ELSE b
NextSleepDoubling(s) == Min(s * 2, 6 * TicksPerSecond)
NextSleep(s) == Min((s * 3) \div 2, 6 * TicksPerSecond)

\* a long delay of a remote call, or a sleep that overruns: as long as the deadline
LongDelay == RunDeadline

\* line 233: the statuses that end the loop; the others the service reports
Terminal == {"completed", "failed", "cancelled", "expired"}
NonTerminal == {"queued", "in_progress"}

\* lines 233-234, after runs.retrieve returned status st at time t
PollVerdictNoDeadline(st, t, dl) == IF st \in Terminal THEN "break" ELSE "sleep"
PollVerdictDeadlineFirst(st, t, dl) ==
    IF t > dl THEN "timeout"
    ELSE IF st \in Terminal THEN "break"
    ELSE "sleep"
PollVerdict(st, t, dl) ==
    IF st \in Terminal THEN "break"
    ELSE IF t > dl THEN "timeout"
    ELSE "sleep"

\* line 237, after the loop
AfterLoopLenient(st) ==
    IF st \notin {"completed", "expired"} THEN "Run did not complete: " \o st ELSE ""
AfterLoop(st) == IF st # "completed" THEN "Run did not complete: " \o st ELSE ""

\* lines 186-215: the order of the request shapes
ShapeOrderSwapped == <<"tool_resources", "file_search", "extra_body">>
ShapeOrder == <<"file_search", "tool_resources", "extra_body">>

\* what responses.create returns in the model
SampleResponses ==
    {Response(Str("answer"),
              List(<<MessageBlock(List(<<OutputText(List(<<Cite("f1"), Cite("f2")>>))>>))>>)),
     Response(Str("answer"), List(<<>>)),
     Response(Str(""), List(<<MessageBlock(List(<<OutputText(List(<<Cite("f1")>>))>>))>>)),
     Response(None, List(<<>>)),
     Response(Absent, Absent),
     None}

\* line 239: messages.list(thread_id=thread.id, order="desc", limit=5)
MessagesLimit == 5
MessagesOrder == "desc"

\* the threads the run can leave behind, oldest message first
SampleThreads ==
    {<<>>,
     <<Message(Str("user"), List(<<TextItem(Str("question"), List(<<>>))>>)),
       Message(Str("assistant"), List(<<TextItem(Str("reply"), List(<<Cite("f1")>>))>>))>>,
     <<Message(Str("user"), List(<<TextItem(Str("question"), List(<<Cite("f3")>>))>>))>>,
     <<Message(Str("assistant"), List(<<TextItem(Str("older"), List(<<Cite("f2"), Cite("f1")>>))>>)),
       Message(Str("assistant"), List(<<TextItem(Str(""), List(<<>>))>>))>>,
     <<Message(Str("assistant"), None)>>,
     <<Message(Str("assistant"), List(<<TextItem(Str("oldest"), List(<<>>))>>)),
       Message(Str("user"), List(<<TextItem(Str("q1"), List(<<>>))>>)),
       Message(Str("user"), List(<<TextItem(Str("q2"), List(<<>>))>>)),
       Message(Str("user"), List(<<TextItem(Str("q3"), List(<<>>))>>)),
       Message(Str("user"), List(<<TextItem(Str("q4"), List(<<>>))>>)),
       Message(Str("user"), List(<<TextItem(Str("q5"), List(<<>>))>>))>>}

\* the page messages.list returns for a thread: at most limit messages, in the
\* order asked for
Listed(thread, order, limit) ==
    LET n == IF Len(thread) < limit THEN Len(thread) ELSE limit
    IN  [i \in 1..n |-> IF order = "desc" THEN thread[Len(thread) + 1 - i] ELSE thread[i]]

\* what messages.list returns in the model: msgs.data, newest first
SampleData == {Listed(t, MessagesOrder, MessagesLimit) : t \in SampleThreads}

Result(via, answer, file_ids) ==
    [kind |-> "result", via |-> via, answer |-> answer, file_ids |-> file_ids, err |-> ""]
Error(e) == [kind |-> "error", via |-> "", answer |-> "", file_ids |-> <<>>, err |-> e]
NoOutcome == [kind |-> "none", via |-> "", answer |-> "", file_ids |-> <<>>, err |-> ""]

\* line 281: getattr(resp, "output_text", None) or "(no text)"
PrimaryAnswer(r) ==
    LET t == GetAttr(r, "output_text", None)
    IN  IF Truthy(t) /\ t.k = "str" THEN t.v ELSE "(no text)"

\* lines 280-283 once ask_with_responses returned r (ids: list(file_ids) of line 152),
\* lines 288-293: the answer is shown
AfterPrimaryStrict(r, ids) ==
    IF Truthy(GetAttr(r, "output_text", None))
    THEN [pc |-> "done", outcome |-> Result("responses", PrimaryAnswer(r), ids)]
    ELSE [pc |-> "assistants.create", outcome |-> NoOutcome]
AfterPrimary(r, ids) ==
    IF extract_file_ids_from_responses(r).raised
    THEN [pc |-> "assistants.create", outcome |-> NoOutcome]
    ELSE [pc |-> "done", outcome |-> Result("responses", PrimaryAnswer(r), ids)]

\* lines 284-285: except Exception: ask_with_assistants(...), e the exception of
\* the third shape
PrimaryFailedSurfaced(e) == [pc |-> "done", outcome |-> Error(e)]
PrimaryFailed(e) == [pc |-> "assistants.create", outcome |-> NoOutcome]

\* lines 240-247: the scan of msgs.data for the answer text; exc: an exception left it
ScanOk(t) == [text |-> t, exc |-> FALSE]
ScanRaise == [text |-> "", exc |-> TRUE]

RECURSIVE ScanItems(_, _)
ScanItems(items, j) ==
    IF j > Len(items) THEN ScanOk("")
    ELSE LET item == items[j]
         IN  IF ~HasAttr(item, "type") THEN ScanRaise
             ELSE IF ~IsStr(item.v.type, "text") THEN ScanItems(items, j + 1)
             ELSE IF ~HasAttr(item, "text") THEN ScanRaise
             ELSE IF ~HasAttr(item.v.text, "value") THEN ScanRaise
             ELSE LET v == item.v.text.v.value
                  IN  ScanOk(IF Truthy(v) /\ v.k = "str" THEN v.v ELSE "")

RECURSIVE ScanMessagesFirstText(_, _)
ScanMessagesFirstText(data, i) ==
    IF i > Len(data) THEN ScanOk("")
    ELSE LET m == data[i]
         IN  IF ~HasAttr(m, "role") THEN ScanRaise
             ELSE IF ~IsStr(m.v.role, "assistant") THEN ScanMessagesFirstText(data, i + 1)
             ELSE IF ~HasAttr(m, "content") \/ m.v.content.k # "list" THEN ScanRaise
             ELSE LET r == ScanItems(m.v.content.v, 1)
                  IN  IF r.exc \/ \E j \in 1..Len(m.v.content.v) :
                                      IsStr(GetAttr(m.v.content.v[j], "type", None), "text")
                      THEN r ELSE ScanMessagesFirstText(data, i + 1)

RECURSIVE ScanMessages(_, _)
ScanMessages(data, i) ==
    IF i > Len(data) THEN ScanOk("")
    ELSE LET m == data[i]
         IN  IF ~HasAttr(m, "role") THEN ScanRaise
             ELSE IF ~IsStr(m.v.role, "assistant") THEN ScanMessages(data, i + 1)
             ELSE IF ~HasAttr(m, "content") \/ m.v.content.k # "list" THEN ScanRaise
             ELSE LET r == ScanItems(m.v.content.v, 1)
                  IN  IF r.exc \/ r.text # "" THEN r ELSE ScanMessages(data, i + 1)

\* the delays a call or a sleep can meet
Delays == IF delays < MaxDelays THEN {0, LongDelay} ELSE {0}
Met(d) == IF d > 0 THEN delays + 1 ELSE delays

\* the handler ends with the error message "Error: " + e (lines 301-302)
Fail(e) == pc' = "done" /\ outcome' = Error(e)

\* lines 115-116: what the sidebar inputs can hold
KeyInputs == {"", "sk"}
VsInputs == {"", "vs"}

\* line 267: what the question input can hold
Whitespace == {" ", "\t", "\n"}
Questions == {<<>>, <<" ", "\t">>, <<" ", "q", " ">>}

\* str.strip()
RECURSIVE StripLeft(_)
StripLeft(q) == IF q # <<>> /\ Head(q) \in Whitespace THEN StripLeft(Tail(q)) ELSE q
RECURSIVE StripRight(_)
StripRight(q) ==
    IF q # <<>> /\ q[Len(q)] \in Whitespace THEN StripRight(SubSeq(q, 1, Len(q) - 1)) ELSE q
Strip(q) == StripRight(StripLeft(q))

\* lines 127-128: a non-empty sidebar input is written to the environment
Sidebar(e, k, v) ==
    [key |-> IF k # "" THEN k ELSE e.key, vs |-> IF v # "" THEN v ELSE e.vs]

\* lines 270-275 (309-310, 359-360 without the question): the message of the first
\* test that fails, "" when all pass
ValidationKeyOnly(e, q, asks) ==
    IF e.key = "" THEN "Provide your OpenAI API key in the sidebar." ELSE ""
Validation(e, q, asks) ==
    IF e.key = "" THEN "Provide your OpenAI API key in the sidebar."
    ELSE IF e.vs = "" THEN "Provide your Vector Store ID in the sidebar."
    ELSE IF asks /\ Strip(q) = <<>> THEN "Please enter a question."
    ELSE ""

\* what each creating call of the secondary protocol leaves on the service
CreatesNoThread(at) ==
    CASE at = "assistants.create" -> "workers"
      [] at = "threads.create" -> "messages"
      [] at = "messages.create" -> "messages"
      [] OTHER -> "runs"
Creates(at) ==
    CASE at = "assistants.create" -> "workers"
      [] at = "threads.create" -> "threads"
      [] at = "messages.create" -> "messages"
      [] OTHER -> "runs"
Created(r, at) == [r EXCEPT ![Creates(at)] = @ + 1]

AskInit ==
    /\ pc = "idle"
    /\ attempts = <<>>
    /\ resp = None
    /\ secLog = <<>>
    /\ polls = 0
    /\ now = 0
    /\ deadline = 0
    /\ sleep_s = 0
    /\ nsleeps = 0
    /\ lastSleep = 0
    /\ delays = 0
    /\ runStatus = "none"
    /\ status = "none"
    /\ termInTime = FALSE
    /\ msgs = None
    /\ outcome = NoOutcome

\* before the first click: nothing in the environment, nothing created remotely
FilesInit ==
    /\ store = <<>>
    /\ after = None
    /\ files = <<>>
    /\ requests = <<>>
    /\ pages = <<>>
    /\ lookups = <<>>
    /\ out = <<>>
    /\ dispatched = <<>>
    /\ results_md = <<>>
    /\ errors = <<>>
    /\ progress = <<>>
    /\ report = None

AppInit ==
    /\ handler = "none"
    /\ env = [key |-> "", vs |-> ""]
    /\ question = <<>>
    /\ dispatches = 0
    /\ remote = [workers |-> 0, threads |-> 0, messages |-> 0, runs |-> 0]
    /\ past = [invoked |-> 0, pastRun |-> 0]

\* the environments the sidebar can leave: one for each pair of inputs
Sidebars(e) == {Sidebar(e, k, v) : k \in KeyInputs, v \in VsInputs}

\* a button is clicked and the script runs again from the top (lines 115-128): the
\* sidebar has left the environment e, what the run before showed is gone
Click(h, e) ==
    /\ pc \in {"idle", "stopped", "done"}
    /\ dispatches < MaxDispatches
    /\ dispatches' = dispatches + 1
    /\ handler' = h
    /\ env' = e
    /\ past' = [invoked |-> past.invoked + (IF secLog # <<>> THEN 1 ELSE 0),
                pastRun |-> past.pastRun + (IF polls > 0 THEN 1 ELSE 0)]
    /\ attempts' = <<>>
    /\ resp' = None
    /\ secLog' = <<>>
    /\ polls' = 0
    /\ now' = 0
    /\ deadline' = 0
    /\ sleep_s' = 0
    /\ nsleeps' = 0
    /\ lastSleep' = 0
    /\ delays' = 0
    /\ runStatus' = "none"
    /\ status' = "none"
    /\ termInTime' = FALSE
    /\ msgs' = None
    /\ after' = None
    /\ files' = <<>>
    /\ requests' = <<>>
    /\ pages' = <<>>
    /\ lookups' = <<>>
    /\ out' = <<>>
    /\ dispatched' = <<>>
    /\ results_md' = <<>>
    /\ errors' = <<>>
    /\ progress' = <<>>
    /\ report' = None

\* lines 271, 273, 275 (309, 310, 359, 360): st.error(e); st.stop() ends the script
\* run (the exception of st.stop is no Exception: line 301 does not catch it)
Stopped(e) == pc' = "stopped" /\ outcome' = Error(e)

\* the Ask button is clicked: lines 268-278, the validation and, when it passes,
\* the first request of ask_with_responses is next
Ask ==
    \E e \in Sidebars(env), q \in Questions :
        /\ Click("ask", e)
        /\ question' = q
        /\ IF Validation(e, q, TRUE) # ""
           THEN Stopped(Validation(e, q, TRUE))
           ELSE pc' = "shape1" /\ outcome' = NoOutcome
        /\ UNCHANGED <<exVars, remote, store>>

\* what a step of a running handler leaves alone
otherVars == <<exVars, handler, env, question, dispatches, past, filesVars>>

secVars == <<secLog, polls, now, deadline, sleep_s, nsleeps, lastSleep, delays, runStatus,
             status, termInTime, msgs>>

\* responses.create with shape k returns r: ask_with_responses returns (lines 188-194,
\* 199-205, 209-215), and the handler goes on to line 281
Returned(k, r) ==
    /\ attempts' = Append(attempts, [shape |-> ShapeOrder[k], outcome |-> "returned"])
    /\ resp' = r
    /\ \E ids \in ListOfSet(extract_file_ids_from_responses(r).file_ids) :
          LET h == AfterPrimary(r, ids)
          IN  pc' = h.pc /\ outcome' = h.outcome

\* responses.create with shape k raises
Raised(k) ==
    /\ attempts' = Append(attempts, [shape |-> ShapeOrder[k], outcome |-> "raised"])
    /\ resp' = None

\* lines 187-196: shape 1, file_search at top level
Shape1 ==
    /\ pc = "shape1"
    /\ \/ \E r \in SampleResponses : Returned(1, r)
       \/ Raised(1) /\ pc' = "shape2" /\ outcome' = outcome
    /\ UNCHANGED <<otherVars, remote, secVars>>

\* lines 198-207: shape 2, tool_resources
Shape2 ==
    /\ pc = "shape2"
    /\ \/ \E r \in SampleResponses : Returned(2, r)
       \/ Raised(2) /\ pc' = "shape3" /\ outcome' = outcome
    /\ UNCHANGED <<otherVars, remote, secVars>>

\* lines 209-215: shape 3, extra_body; its exception leaves ask_with_responses and
\* is caught at line 284
Shape3 ==
    /\ pc = "shape3"
    /\ \/ \E r \in SampleResponses : Returned(3, r)
       \/ /\ Raised(3)
          /\ LET h == PrimaryFailed("extra_body request failed")
             IN  pc' = h.pc /\ outcome' = h.outcome
    /\ UNCHANGED <<otherVars, remote, secVars>>

\* a call of the secondary protocol that returns nothing the model keeps
SecondaryCall(at, next) ==
    /\ pc = at
    /\ secLog' = Append(secLog, at)
    /\ \/ pc' = next /\ outcome' = outcome /\ remote' = Created(remote, at)
       \/ Fail(at \o " failed") /\ remote' = remote
    /\ UNCHANGED <<otherVars, attempts, resp, polls, now, deadline, sleep_s, nsleeps,
                   lastSleep, delays, runStatus, status, termInTime, msgs>>

\* lines 218-224
CreateAssistant == SecondaryCall("assistants.create", "threads.create")

\* line 225
CreateThread == SecondaryCall("threads.create", "messages.create")

\* line 226
PostMessage == SecondaryCall("messages.create", "runs.create")

\* lines 227-230: the run is created, the deadline and the first interval are set
CreateRun ==
    /\ pc = "runs.create"
    /\ secLog' = Append(secLog, "runs.create")
    /\ \/ /\ pc' = "poll"
          /\ runStatus' = "queued"
          /\ deadline' = now + RunDeadline
          /\ sleep_s' = InitialSleep
          /\ outcome' = outcome
          /\ remote' = Created(remote, "runs.create")
       \/ /\ Fail("runs.create failed")
          /\ UNCHANGED <<runStatus, deadline, sleep_s, remote>>
    /\ UNCHANGED <<otherVars, attempts, resp, polls, now, nsleeps, lastSleep, delays,
                   status, termInTime, msgs>>

\* the remote service moves the run on; a terminal status is final
RemoteRun ==
    /\ pc \in {"poll", "sleep"}
    /\ runStatus \in NonTerminal
    /\ runStatus' \in (NonTerminal \cup Terminal) \ {runStatus}
    /\ termInTime' = (runStatus' \in Terminal /\ now <= deadline)
    /\ UNCHANGED <<otherVars, remote, pc, attempts, resp, secLog, polls, now, deadline,
                   sleep_s, nsleeps, lastSleep, delays, status, msgs, outcome>>

\* lines 232-234 and 237: one runs.retrieve and what the loop makes of it
Poll ==
    /\ pc = "poll"
    /\ polls' = polls + 1
    /\ \E d \in Delays :
          /\ now' = now + d
          /\ delays' = Met(d)
          /\ \/ /\ Fail("runs.retrieve failed")
                /\ status' = status
             \/ /\ status' = runStatus
                /\ LET v == PollVerdict(runStatus, now + d, deadline)
                   IN  CASE v = "timeout" -> Fail("Run timed out.")
                         [] v = "sleep" -> pc' = "sleep" /\ outcome' = outcome
                         [] OTHER ->
                              IF AfterLoop(runStatus) # ""
                              THEN Fail(AfterLoop(runStatus))
                              ELSE pc' = "messages.list" /\ outcome' = outcome
    /\ UNCHANGED <<otherVars, remote, attempts, resp, secLog, deadline, sleep_s, nsleeps,
                   lastSleep, runStatus, termInTime, msgs>>

\* line 235: time.sleep(sleep_s); sleep_s = min(sleep_s * 1.5, 6.0)
Sleep ==
    /\ pc = "sleep"
    /\ \E d \in Delays :
          /\ now' = now + sleep_s + d
          /\ delays' = Met(d)
    /\ lastSleep' = sleep_s
    /\ nsleeps' = nsleeps + 1
    /\ sleep_s' = NextSleep(sleep_s)
    /\ pc' = "poll"
    /\ UNCHANGED <<otherVars, remote, attempts, resp, secLog, polls, deadline, runStatus,
                   status, termInTime, msgs, outcome>>

\* lines 239-250 and 286-293: the messages are listed, the answer and the citations
\* are taken from them and shown
ListMessages ==
    /\ pc = "messages.list"
    /\ secLog' = Append(secLog, "messages.list")
    /\ \/ Fail("messages.list failed") /\ msgs' = msgs
       \/ \E data \in SampleData :
            /\ msgs' = Obj([data |-> List(data)])
            /\ LET a == ScanMessages(data, 1)
               IN  IF a.exc
                   THEN Fail("the scan of the messages failed")
                   ELSE /\ pc' = "done"
                        /\ \E ids \in ListOfSet(extract_file_ids_from_messages(List(data)).file_ids) :
                              outcome' = Result("assistants", a.text, ids)
    /\ UNCHANGED <<otherVars, remote, attempts, resp, polls, now, deadline, sleep_s, nsleeps,
                   lastSleep, delays, runStatus, status, termInTime>>

Next ==
    \/ Ask
    \/ Shape1
    \/ Shape2
    \/ Shape3
    \/ CreateAssistant
    \/ CreateThread
    \/ PostMessage
    \/ CreateRun
    \/ RemoteRun
    \/ Poll
    \/ Sleep
    \/ ListMessages

Init ==
    /\ exInput = [form |-> "messages", arg |-> None]
    /\ exState = "ready"
    /\ exOut = <<>>
    /\ AppInit
    /\ AskInit
    /\ FilesInit

Spec == Init /\ [][Next]_vars

\* the handler's thread goes on: a runs.retrieve call that was issued returns or
\* raises (line 232), a time.sleep call that was issued returns (line 235)
SpecFair == Spec /\ WF_vars(Poll) /\ WF_vars(Sleep)

----------------------------------------------------------------------------
(* list_vs_files (lines 169-183) and the handlers that call it: Summarize   *)
(* ALL (tab_all, lines 307-352) and Refresh file list (tab_files, lines     *)
(* 357-368).  One step is one files.list call, one files.retrieve call, or  *)
(* the summary of one file.                                                 *)

\* line 172: limit=100
PageLimit == 100

\* the identifier of the i-th file of the store
FileId(i) == "file-" \o ToString(i)

\* the stores a listing can meet
Stores == {[i \in 1..n |-> FileId(i)] : n \in 0..MaxFiles}

\* the service: the position in the store that a cursor names (0: no cursor)
CursorAt(st, a) == IF a = None THEN 0 ELSE CHOOSE i \in 1..Len(st) : Str(st[i]) = a

\* the service: how many entries a page can hold, given the cursor and the limit
PageSizes(st, a, limit) ==
    LET rest == Len(st) - CursorAt(st, a)
    IN  IF rest = 0 THEN {0} ELSE 1..Min(Min(limit, MaxPage), rest)

\* the service: the page of n entries after the cursor
Page(st, a, n) ==
    LET from == CursorAt(st, a)
    IN  [data |-> [i \in 1..n |-> st[from + i]],
         has_more |-> from + n < Len(st),
         last_id |-> IF n = 0 THEN None ELSE Str(st[from + n])]

\* line 175: after = page.last_id
NextCursorNone(page) == None
NextCursor(page) == page.last_id

\* line 179: what files.retrieve(id) can do: raise, or return a file object with
\* a filename or with an empty one
LookupResults(id) ==
    {[raised |-> TRUE, filename |-> None],
     [raised |-> FALSE, filename |-> Str("paper-" \o id)],
     [raised |-> FALSE, filename |-> Str("")]}

\* lines 180 and 182: f.filename or it.id; it.id when the lookup raised
DisplayNameStrict(id, r) == IF r.raised THEN id ELSE r.filename.v
DisplayName(id, r) ==
    IF r.raised THEN id
    ELSE IF Truthy(r.filename) THEN r.filename.v ELSE id

\* what a handler shows when it ends without an error
Shown(kind) == [kind |-> kind, via |-> "", answer |-> "", file_ids |-> <<>>, err |-> ""]

\* lines 329-335: the dispatch for one file is the dispatch of the Ask handler
\* (Shape1 ... ListMessages); the batch sees how it ended: ok with the answer text
\* (primary answer, or the answer of the secondary protocol, here the empty one) or
\* the exception, and whether the secondary protocol created its worker, thread
\* and run (sec)
BatchOutcomes ==
    {[ok |-> TRUE, text |-> PrimaryAnswer(Response(Str("answer"), List(<<>>))),
      err |-> "", sec |-> FALSE],
     [ok |-> TRUE, text |-> ScanMessages(<<>>, 1).text, err |-> "", sec |-> TRUE],
     [ok |-> FALSE, text |-> "", err |-> "Run timed out.", sec |-> TRUE]}

\* line 341: f"### {fname}\n\n{answer_text}\n"
Summary(fname, answer_text) == "### " \o fname \o "\n\n" \o answer_text \o "\n"

\* line 347: "\n\n".join(results_md)
RECURSIVE JoinMd(_)
JoinMd(md) ==
    IF md = <<>> THEN ""
    ELSE IF Len(md) = 1 THEN md[1]
    ELSE md[1] \o "\n\n" \o JoinMd(Tail(md))

\* lines 346-349: the download button is shown when results_md is not empty
ReportOf(md) == IF md = <<>> THEN None ELSE Str("# Summaries\n\n" \o JoinMd(md))

\* lines 328-343: results_md.append(...) is reached when no exception left the
\* dispatch; the except of line 342 shows the error and the loop goes on
RecordedAlways(ok, md, entry) == Append(md, entry)
Recorded(ok, md, entry) == IF ok THEN Append(md, entry) ELSE md

\* line 344: progress.progress(idx / total), after the try statement
ReportedOnSuccess(ok, pr, idx, total) == IF ok THEN Append(pr, <<idx, total>>) ELSE pr
Reported(ok, pr, idx, total) == Append(pr, <<idx, total>>)

\* the button of a handler that lists the files is clicked: the validation (lines
\* 309-310, 359-360) and, when it passes, the first files.list call is next
ListingClick(h) ==
    \E e \in Sidebars(env) :
        /\ Click(h, e)
        /\ IF Validation(e, question, FALSE) # ""
           THEN Stopped(Validation(e, question, FALSE)) /\ store' = <<>>
           ELSE /\ pc' = "files.list"
                /\ outcome' = NoOutcome
                /\ store' \in Stores
        /\ UNCHANGED <<exVars, question, remote>>

\* lines 307-313
SummarizeAll == ListingClick("all")

\* lines 357-362
RefreshFiles == ListingClick("files")

\* lines 172-175: one files.list call; the listing ends with the first page whose
\* has_more is false, and an empty listing ends the handler (lines 315-316, 363-364)
ListPage ==
    /\ pc = "files.list"
    /\ requests' = Append(requests, [limit |-> PageLimit, after |-> after])
    /\ \/ /\ Fail("files.list failed")
          /\ UNCHANGED <<after, files, pages>>
       \/ \E n \in PageSizes(store, after, PageLimit) :
            LET page == Page(store, after, n)
            IN  /\ pages' = Append(pages, page)
                /\ files' = files \o page.data
                /\ IF page.has_more
                   THEN after' = NextCursor(page) /\ pc' = "files.list" /\ outcome' = outcome
                   ELSE /\ after' = after
                        /\ IF files' = <<>>
                           THEN pc' = "done" /\ outcome' = Shown("no files")
                           ELSE pc' = "files.retrieve" /\ outcome' = outcome
    /\ UNCHANGED <<exVars, appVars, attempts, resp, secVars, store, lookups, out, dispatched,
                   results_md, errors, progress, report>>

\* lines 177-183: one files.retrieve call and the pair it gives; after the last
\* one list_vs_files returns: Refresh file list shows the names (line 366),
\* Summarize ALL starts the batch (lines 318-320)
Retrieve ==
    /\ pc = "files.retrieve"
    /\ LET it == files[Len(out) + 1]
       IN  \E r \in LookupResults(it) :
              /\ lookups' = Append(lookups, [id |-> it, raised |-> r.raised,
                                             filename |-> r.filename])
              /\ out' = Append(out, <<it, DisplayName(it, r)>>)
    /\ IF Len(out) + 1 < Len(files)
       THEN pc' = "files.retrieve" /\ outcome' = outcome
       ELSE IF handler = "files"
            THEN pc' = "done" /\ outcome' = Shown("files")
            ELSE pc' = "summarize" /\ outcome' = outcome
    /\ UNCHANGED <<exVars, appVars, attempts, resp, secVars, store, after, files, requests,
                   pages, dispatched, results_md, errors, progress, report>>

\* lines 321-344: the summary of one file: its dispatch, the answer shown and
\* appended, or the error shown, then the progress; after the last file the
\* download button and "Done." (lines 346-350)
Summarize ==
    /\ pc = "summarize"
    /\ LET idx == Len(dispatched) + 1
           total == Len(out)
           fid == out[idx][1]
           fname == out[idx][2]
       IN  \E o \in BatchOutcomes :
              /\ dispatched' = Append(dispatched, [fid |-> fid, ok |-> o.ok])
              /\ remote' = IF o.sec
                           THEN [workers |-> remote.workers + 1, threads |-> remote.threads + 1,
                                 messages |-> remote.messages + 1, runs |-> remote.runs + 1]
                           ELSE remote
              /\ past' = IF o.sec
                         THEN [invoked |-> past.invoked + 1, pastRun |-> past.pastRun + 1]
                         ELSE past
              /\ results_md' = Recorded(o.ok, results_md, Summary(fname, o.text))
              /\ errors' = IF o.ok THEN errors ELSE Append(errors, fname \o ": " \o o.err)
              /\ progress' = Reported(o.ok, progress, idx, total)
              /\ IF idx < total
                 THEN pc' = "summarize" /\ outcome' = outcome /\ report' = report
                 ELSE /\ pc' = "done"
                      /\ outcome' = Shown("done")
                      /\ report' = ReportOf(results_md')
    /\ UNCHANGED <<exVars, handler, env, question, dispatches, attempts, resp, secVars,
                   store, after, files, requests, pages, lookups, out>>

FilesNext ==
    \/ SummarizeAll
    \/ RefreshFiles
    \/ ListPage
    \/ Retrieve
    \/ Summarize

SpecFiles == Init /\ [][FilesNext]_vars

\* the three buttons
AppNext ==
    \/ Ask
    \/ Shape1
    \/ Shape2
    \/ Shape3
    \/ CreateAssistant
    \/ CreateThread
    \/ PostMessage
    \/ CreateRun
    \/ RemoteRun
    \/ Poll
    \/ Sleep
    \/ ListMessages
    \/ SummarizeAll
    \/ RefreshFiles
    \/ ListPage
    \/ Retrieve
    \/ Summarize

SpecApp == Init /\ [][AppNext]_vars

----------------------------------------------------------------------------
(* SpecExtract: an extractor is called on one input and returns.           *)

ExtractInit ==
    /\ exInput \in ExtractInputs
    /\ exState = "ready"
    /\ exOut = <<>>
    /\ AppInit
    /\ AskInit
    /\ FilesInit

\* the call returns list(file_ids), or the exception leaves it
ExtractCall ==
    /\ exState = "ready"
    /\ LET r == Extract(exInput)
       IN  IF r.raised
           THEN exState' = "raised" /\ exOut' = <<>>
           ELSE exState' = "returned" /\ exOut' \in ListOfSet(r.file_ids)
    /\ UNCHANGED <<exInput, appVars, askVars, filesVars>>

ExtractNext == ExtractCall

SpecExtract == ExtractInit /\ [][ExtractNext]_vars

----------------------------------------------------------------------------
(* What an input cites, stated on the input alone: a citation is an        *)
(* annotation of kind file_citation whose citation object carries a        *)
(* non-empty identifier, in an output_text item of a message block         *)
(* (response form) or in a text item of an assistant message (message-list *)
(* form).  Whatever is missing or of another kind holds no citation.       *)

SeqOf(x) == IF x.k = "list" THEN x.v ELSE <<>>
Attr(o, name) == GetAttr(o, name, None)

EntriesOf(in) ==
    IF in.form = "responses" THEN SeqOf(Attr(in.arg, "output")) ELSE SeqOf(in.arg)

ItemsOf(form, e) ==
    IF form = "responses"
    THEN IF IsStr(Attr(e, "type"), "message")
         THEN SeqOf(Attr(Attr(e, "message"), "content")) ELSE <<>>
    ELSE IF IsStr(Attr(e, "role"), "assistant") THEN SeqOf(Attr(e, "content")) ELSE <<>>

AnnsOf(form, it) ==
    IF form = "responses"
    THEN IF IsStr(Attr(it, "type"), "output_text")
         THEN SeqOf(Attr(it, "annotations")) ELSE <<>>
    ELSE IF IsStr(Attr(it, "type"), "text")
         THEN SeqOf(Attr(Attr(it, "text"), "annotations")) ELSE <<>>

CitedBy(a) ==
    LET fid == Attr(Attr(a, "file_citation"), "file_id")
    IN  IF IsStr(Attr(a, "type"), "file_citation") /\ fid.k = "str" THEN fid.v ELSE ""

\* the citations of an input: [pos |-> <<entry, item, annotation>>, id]
Citations(in) ==
    LET es == EntriesOf(in)
    IN  UNION {
          LET its == ItemsOf(in.form, es[i])
          IN  UNION {
                LET as == AnnsOf(in.form, its[j])
                IN  {[pos |-> <<i, j, k>>, id |-> CitedBy(as[k])] :
                        k \in {n \in 1..Len(as) : CitedBy(as[n]) # ""}}
                : j \in 1..Len(its)}
          : i \in 1..Len(es)}

CitedIds(in) == {c.id : c \in Citations(in)}

\* position p comes before position q in the input
Before(p, q) ==
    \/ p[1] < q[1]
    \/ p[1] = q[1] /\ p[2] < q[2]
    \/ p[1] = q[1] /\ p[2] = q[2] /\ p[3] < q[3]

\* where identifier f is first cited
FirstCited(in, f) ==
    CHOOSE p \in {c.pos : c \in {d \in Citations(in) : d.id = f}} :
        \A c \in Citations(in) : c.id = f => ~Before(c.pos, p)

\* nothing is missing or malformed above the annotations, the annotations
\* list itself excepted: the irregularities are a missing annotations list, a
\* missing citation object, a missing identifier, another annotation kind
RegularAboveAnnotations(in) ==
    /\ IF in.form = "responses" THEN Attr(in.arg, "output").k = "list" ELSE in.arg.k = "list"
    /\ \A i \in 1..Len(EntriesOf(in)) :
         LET e == EntriesOf(in)[i]
         IN  /\ IF in.form = "responses"
                THEN /\ Attr(e, "type").k = "str"
                     /\ IsStr(Attr(e, "type"), "message")
                            => Attr(Attr(e, "message"), "content").k = "list"
                ELSE /\ Attr(e, "role").k = "str"
                     /\ Attr(e, "content").k = "list"
             /\ \A j \in 1..Len(ItemsOf(in.form, e)) :
                  LET it == ItemsOf(in.form, e)[j]
                      anns == IF in.form = "responses" THEN GetAttr(it, "annotations", Absent)
                              ELSE GetAttr(Attr(it, "text"), "annotations", Absent)
                  IN  /\ Attr(it, "type").k = "str"
                      /\ in.form = "messages" /\ IsStr(Attr(it, "type"), "text")
                            => Attr(it, "text").k = "obj"
                      /\ anns.k \in {"absent", "none", "list"}

\* the walk of the try block of the extractor that exInput names
Walk(in) == IF in.form = "responses" THEN WalkResponses(in.arg) ELSE WalkMessages(in.arg)

NoDuplicates(s) == \A i, j \in 1..Len(s) : s[i] = s[j] => i = j

----------------------------------------------------------------------------
(* Claims about the dispatch, under Spec. *)

\* the order of the request shapes as documented
DocumentedOrder == <<"file_search", "tool_resources", "extra_body">>

SomeShapeReturned == \E i \in 1..Len(attempts) : attempts[i].outcome = "returned"
AllShapesRaised ==
    Len(attempts) = 3 /\ \A i \in 1..3 : attempts[i].outcome = "raised"

\* C1: in one dispatch the request shapes are issued in the order file_search,
\* tool_resources, extra_body, each at most once, a shape only after the one before
\* it raised; after the first shape that returns no further shape is issued.
C1_ShapesInOrder ==
    /\ Len(attempts) <= 3
    /\ \A i \in 1..Len(attempts) :
          /\ attempts[i].shape = DocumentedOrder[i]
          /\ i < Len(attempts) => attempts[i].outcome = "raised"
    /\ pc \in {"shape1", "shape2", "shape3"} =>
          /\ ~SomeShapeReturned
          /\ pc = <<"shape1", "shape2", "shape3">>[Len(attempts) + 1]
    /\ pc \notin {"idle", "stopped", "shape1", "shape2", "shape3"} => Len(attempts) >= 1

\* C1 happens: the first two shapes raised, then the third was issued and returned.
C1_Witness ==
    /\ Len(attempts) = 3
    /\ attempts[1].outcome = "raised"
    /\ attempts[2].outcome = "raised"
    /\ attempts[3].outcome = "returned"

\* the error messages of the secondary protocol
SecondaryFailures ==
    {"assistants.create failed", "threads.create failed", "messages.create failed",
     "runs.create failed", "runs.retrieve failed", "messages.list failed",
     "the scan of the messages failed", "Run timed out.",
     "Run did not complete: failed", "Run did not complete: cancelled",
     "Run did not complete: expired"}

\* C2: when all three shapes raised, the secondary protocol is started and no
\* primary exception is shown: a completed run whose messages were listed gives the
\* secondary answer as a result, and an error shown is a failure of the secondary
\* protocol itself.
C2_FallbackToSecondary ==
    AllShapesRaised =>
        /\ pc = "assistants.create" \/ (secLog # <<>> /\ secLog[1] = "assistants.create")
        /\ pc = "done" =>
              /\ outcome.kind \in {"result", "error"}
              /\ outcome.kind = "error" => outcome.err \in SecondaryFailures
              /\ outcome.kind = "result" =>
                    /\ status = "completed"
                    /\ outcome.via = "assistants"
                    /\ outcome.answer = ScanMessages(msgs.v.data.v, 1).text
              /\ (status = "completed" /\ msgs # None
                    /\ ~ScanMessages(msgs.v.data.v, 1).exc) => outcome.kind = "result"

\* C2 happens: all three shapes raised, the run completed on the second poll and
\* the caller got the answer of the assistant's message.
C2_Witness ==
    /\ AllShapesRaised
    /\ pc = "done"
    /\ polls = 2
    /\ outcome.kind = "result"
    /\ outcome.answer = "reply"

\* C3: once a primary shape returned, the dispatch ends with that response's answer
\* and citations, and no call of the secondary protocol is issued in the dispatch.
C3_NoSecondaryAfterSuccess ==
    SomeShapeReturned =>
        /\ pc = "done"
        /\ outcome.kind = "result"
        /\ outcome.via = "responses"
        /\ outcome.answer = PrimaryAnswer(resp)
        /\ Range(outcome.file_ids) = CitedIds([form |-> "responses", arg |-> resp])
        /\ secLog = <<>>
        /\ polls = 0
        /\ runStatus = "none"

\* C3 happens: shapes 1 and 2 raised, shape 3 returned a response without text.
C3_Witness ==
    /\ C1_Witness
    /\ pc = "done"
    /\ outcome.answer = "(no text)"

\* C4 as stated: a dispatch whose run was not terminal when the deadline passed (and
\* whose status retrievals all returned) ends with the timeout failure.
C4_TimeoutUnlessTerminalInTime ==
    (pc = "done" /\ polls > 0 /\ ~termInTime /\ outcome.err # "runs.retrieve failed")
        => outcome = Error("Run timed out.")

\* C4 amended: a dispatch in which no poll observed a terminal status (and every
\* status retrieval returned) ends only with the timeout failure, raised by a poll
\* that returned after the deadline; the loop does not sleep again once a poll found
\* the deadline passed, and the timeout failure is raised in no other case.
C4_TimeoutWhenNoTerminalObserved ==
    /\ (pc = "done" /\ polls > 0 /\ status \notin Terminal
            /\ outcome.err # "runs.retrieve failed")
          => (outcome = Error("Run timed out.") /\ now > deadline)
    /\ pc = "sleep" => (status \in NonTerminal /\ now <= deadline)
    /\ outcome.err = "Run timed out." => (status \in NonTerminal /\ now > deadline)

\* C4 happens: with no long delay, the run stayed in progress for the 6 minutes
\* of polling and the dispatch ended with the timeout failure.
C4_Witness ==
    /\ pc = "done"
    /\ delays = 0
    /\ status = "in_progress"
    /\ outcome = Error("Run timed out.")

\* the message that names a status
NamesStatus ==
    [failed |-> "Run did not complete: failed",
     cancelled |-> "Run did not complete: cancelled",
     expired |-> "Run did not complete: expired"]

\* C5: of the terminal statuses only completed leads to listing the messages; on
\* failed, cancelled and expired the dispatch raises a failure naming the status and
\* the messages are not listed.
C5_OnlyCompletedHarvests ==
    /\ status \in {"failed", "cancelled", "expired"} =>
          /\ pc = "done"
          /\ outcome = Error(NamesStatus[status])
          /\ "messages.list" \notin Range(secLog)
    /\ (pc = "messages.list" \/ "messages.list" \in Range(secLog)) => status = "completed"

\* C5 happens: a poll observed the status expired.
C5_Witness ==
    /\ pc = "done"
    /\ status = "expired"
    /\ nsleeps > 0

\* the sleeps of the claim, in ticks: 0.75, 1.125, 1.6875, 2.53125, 3.796875,
\* 5.6953125, then 6.0
ClaimedSleep(n) == IF n <= 6 THEN <<192, 288, 432, 648, 972, 1458>>[n] ELSE 1536

\* C6: the n-th sleep of a polling loop lasts 0.75 * 1.5^(n-1), capped at 6.0; there
\* is one sleep after each poll that leaves the loop running.
C6_SleepSchedule ==
    runStatus # "none" =>
        /\ sleep_s = ClaimedSleep(nsleeps + 1)
        /\ nsleeps > 0 => lastSleep = ClaimedSleep(nsleeps)
        /\ lastSleep <= sleep_s
        /\ sleep_s <= 1536
        /\ pc = "poll" => nsleeps = polls
        /\ pc = "sleep" => nsleeps = polls - 1

\* C6 happens: the loop has slept nine times, the last two for 6.0.
C6_Witness ==
    /\ pc = "poll"
    /\ nsleeps = 9
    /\ lastSleep = 1536
    /\ sleep_s = 1536

----------------------------------------------------------------------------
(* Claims about the answer of a dispatch, under Spec. *)

\* C11: a dispatch that ends without an error shows a non-empty answer, through
\* the primary and through the secondary protocol.
C11_AnswerNeverEmpty ==
    (pc = "done" /\ outcome.kind = "result") => outcome.answer # ""

\* the text items of a message, and the value of the first one ("" when it is
\* missing or empty)
TextItemsOf(m) ==
    LET c == SeqOf(Attr(m, "content"))
    IN  {j \in 1..Len(c) : IsStr(Attr(c[j], "type"), "text")}
FirstTextOf(m) ==
    LET c == SeqOf(Attr(m, "content"))
        j == CHOOSE k \in TextItemsOf(m) : \A l \in TextItemsOf(m) : k <= l
        v == Attr(Attr(c[j], "text"), "value")
    IN  IF TextItemsOf(m) # {} /\ v.k = "str" THEN v.v ELSE ""
AssistantMessages(data) == {i \in 1..Len(data) : IsStr(Attr(data[i], "role"), "assistant")}
First(S) == CHOOSE i \in S : \A j \in S : i <= j

\* the messages listed by the dispatch that ended with a secondary answer
ListedData == msgs.v.data.v
SecondaryAnswered == pc = "done" /\ outcome.kind = "result" /\ outcome.via = "assistants"

\* the newest n messages of a thread, newest first
NewestFirst(t, n) ==
    [i \in 1..(IF Len(t) < n THEN Len(t) ELSE n) |-> t[Len(t) + 1 - i]]

\* C12 as stated: the secondary answer is the first text item of the first
\* assistant message of the list that has a text item, and it is empty only if no
\* assistant message of the list has a text item.
C12_FirstAssistantWithTextItem ==
    SecondaryAnswered =>
        LET withText == {i \in AssistantMessages(ListedData) : TextItemsOf(ListedData[i]) # {}}
        IN  /\ withText # {} => outcome.answer = FirstTextOf(ListedData[First(withText)])
            /\ outcome.answer = "" => withText = {}

\* C12 amended: the list holds the at most 5 newest messages of the thread, newest
\* first; the secondary answer is the first text item of the first assistant
\* message of the list whose first text item is not empty, and it is empty only if
\* there is no such message; messages of other roles are skipped.
C12_FirstAssistantWithNonEmptyText ==
    SecondaryAnswered =>
        LET nonEmpty == {i \in AssistantMessages(ListedData) : FirstTextOf(ListedData[i]) # ""}
        IN  /\ Len(ListedData) <= 5
            /\ \E t \in SampleThreads : ListedData = NewestFirst(t, 5)
            /\ nonEmpty # {} => outcome.answer = FirstTextOf(ListedData[First(nonEmpty)])
            /\ nonEmpty = {} => outcome.answer = ""

\* C12 happens: the newest assistant message has an empty text, and the answer is
\* the text of the assistant message before it.
C12_Witness ==
    /\ SecondaryAnswered
    /\ Len(ListedData) = 2
    /\ FirstTextOf(ListedData[1]) = ""
    /\ outcome.answer = "older"

----------------------------------------------------------------------------
(* Claims about the polling loop, under Spec. *)

\* C19: a poll that observes a terminal status ends the loop with that status,
\* also after the deadline: the dispatch goes on to list the messages (completed)
\* or fails naming the status, never with the timeout; the timeout failure is
\* raised only by a poll that observed a non-terminal status.
C19_StatusBeforeDeadline ==
    /\ status \in Terminal =>
          /\ pc \in {"messages.list", "done"}
          /\ outcome.err # "Run timed out."
          /\ status # "completed" => outcome = Error("Run did not complete: " \o status)
          /\ status = "completed" =>
                (pc = "messages.list" \/ "messages.list" \in Range(secLog))
    /\ outcome.err = "Run timed out." => status \in NonTerminal

\* C19 happens: a poll returned after the deadline with the status completed, and
\* the dispatch ended with the answer of the listed messages.
C19_Witness ==
    /\ pc = "done"
    /\ now > deadline
    /\ status = "completed"
    /\ outcome.kind = "result"

----------------------------------------------------------------------------
(* Claims about the phases of the secondary protocol, under Spec. *)

\* the creating phases as documented: worker, thread, question, run
Phases == <<"assistants.create", "threads.create", "messages.create", "runs.create">>

\* secondary invocations so far, and those of them that got past run creation
Invoked == past.invoked + (IF secLog # <<>> THEN 1 ELSE 0)
PastRunCreation == past.pastRun + (IF runStatus # "none" THEN 1 ELSE 0)

\* C18: an invocation of the secondary protocol issues create worker, create
\* thread, post question, create run, the polls and list messages in this order,
\* and a phase that fails is the last one issued; nothing created is deleted: a
\* run exists for every invocation that got past run creation, however it ended,
\* and after k invocations that all got past run creation there are k workers,
\* k threads and k runs.
C18_PhasesAndLeftovers ==
    /\ \/ Len(secLog) <= 4 /\ secLog = SubSeq(Phases, 1, Len(secLog))
       \/ secLog = Phases \o <<"messages.list">>
    /\ pc \in {"poll", "sleep", "messages.list"} => secLog = Phases
    /\ polls > 0 => (Len(secLog) >= 4 /\ runStatus # "none")
    /\ "messages.list" \in Range(secLog) => (polls > 0 /\ status = "completed")
    /\ \A i \in 1..4 :
          outcome.err = Phases[i] \o " failed" =>
              (pc = "done" /\ secLog = SubSeq(Phases, 1, i) /\ polls = 0 /\ runStatus = "none")
    /\ outcome.err \in {"runs.retrieve failed", "Run timed out.",
                         "Run did not complete: failed", "Run did not complete: cancelled",
                         "Run did not complete: expired"} =>
              (pc = "done" /\ secLog = Phases /\ polls > 0)
    /\ remote.runs = PastRunCreation
    /\ remote.workers >= remote.threads
    /\ remote.threads >= remote.messages
    /\ remote.messages >= remote.runs
    /\ remote.workers <= Invoked
    /\ Invoked = PastRunCreation =>
          (remote.workers = PastRunCreation /\ remote.threads = PastRunCreation)

\* C18 happens: two invocations got past run creation, the second ended with the
\* timeout; two workers, two threads and two runs exist.
C18_Witness ==
    /\ pc = "done"
    /\ past = [invoked |-> 1, pastRun |-> 1]
    /\ outcome = Error("Run timed out.")
    /\ remote = [workers |-> 2, threads |-> 2, messages |-> 2, runs |-> 2]

----------------------------------------------------------------------------
(* Claims about the termination of the polling loop, under SpecFair. *)

LoopRunning == pc \in {"poll", "sleep"}
LoopEnded ==
    \/ status \in Terminal
    \/ outcome.err = "Run timed out."
    \/ outcome.err = "runs.retrieve failed"

\* C20: with sleeps that last at least their interval, a polling loop issues at
\* most 65 polls; when every status retrieval returns, a running loop ends with a
\* terminal status or with the timeout failure, whatever statuses the service
\* reports; once the loop has ended the dispatch issues no further poll.
C20_LoopTerminates ==
    /\ [](polls <= 65)
    /\ [][(~LoopRunning /\ polls' # polls) => (polls' = 0 /\ dispatches' = dispatches + 1)]_vars
    /\ LoopRunning ~> (~LoopRunning /\ LoopEnded)

\* C20 happens: the loop ended with the timeout failure on its 65th poll.
C20_Witness ==
    /\ pc = "done"
    /\ polls = 65
    /\ outcome = Error("Run timed out.")

----------------------------------------------------------------------------
(* Claims about list_vs_files, under SpecFiles. *)

\* the entries of all pages received, in page order and in-page order
RECURSIVE Concatenation(_)
Concatenation(ps) ==
    IF ps = <<>> THEN <<>> ELSE ps[1].data \o Concatenation(Tail(ps))

\* list_vs_files has returned to its caller
ListReturned ==
    \/ pc = "summarize"
    \/ pc = "done" /\ outcome.kind \in {"no files", "files", "done"}

Nameless(l) == l.raised \/ l.filename = None \/ l.filename = Str("")

\* C14: every entry looked up so far has its pair at its position, whatever
\* lookups raised: with the identifier as name when the lookup raised or gave an
\* empty filename, with the filename otherwise; no failure of a lookup ends the
\* listing, which returns a pair for every entry.
C14_LookupFailuresTolerated ==
    /\ Len(lookups) = Len(out)
    /\ \A i \in 1..Len(out) :
          /\ lookups[i].id = files[i]
          /\ out[i][1] = files[i]
          /\ out[i][2] = (IF Nameless(lookups[i]) THEN files[i] ELSE lookups[i].filename.v)
    /\ pc = "files.retrieve" => Len(out) < Len(files)
    /\ ListReturned => Len(out) = Len(files)
    /\ lookups # <<>> => outcome.kind # "error"

\* C14 happens: the first lookup raised, the second gave a filename, and the
\* listing returned both entries.
C14_Witness ==
    /\ pc = "done"
    /\ handler = "files"
    /\ Len(out) = 2
    /\ lookups[1].raised
    /\ out[1] = <<FileId(1), FileId(1)>>
    /\ out[2] = <<FileId(2), "paper-file-2">>

----------------------------------------------------------------------------
(* Claims about the batch of Summarize ALL, under SpecFiles. *)

\* the batch is over
BatchDone == handler = "all" /\ pc = "done" /\ outcome.kind = "done"

\* the files whose dispatch succeeded (failed), as positions in the listing
Succeeded == {i \in 1..Len(dispatched) : dispatched[i].ok}
Failed == {i \in 1..Len(dispatched) : ~dispatched[i].ok}

\* the j-th smallest element of a set of positions
Nth(S, j) == CHOOSE i \in S : Cardinality({k \in S : k < i}) = j - 1

\* C15: the batch dispatches the listed files one after the other in listing
\* order, each once; a failed dispatch is shown as an error for its file and the
\* batch goes on to the last file; the report holds the summaries of the files
\* that succeeded, in listing order, and of no other.
C15_BatchSurvivesFailures ==
    /\ Len(dispatched) <= Len(out)
    /\ \A i \in 1..Len(dispatched) : dispatched[i].fid = out[i][1]
    /\ pc = "summarize" => (handler = "all" /\ Len(dispatched) < Len(out))
    /\ BatchDone => Len(dispatched) = Len(out)
    /\ dispatched # <<>> => outcome.kind # "error"
    /\ Len(errors) = Cardinality(Failed)
    /\ \A j \in 1..Len(errors) :
          \E o \in BatchOutcomes :
             ~o.ok /\ errors[j] = out[Nth(Failed, j)][2] \o ": " \o o.err
    /\ Len(results_md) = Cardinality(Succeeded)
    /\ \A j \in 1..Len(results_md) :
          \E o \in BatchOutcomes :
             o.ok /\ results_md[j] = "### " \o out[Nth(Succeeded, j)][2] \o "\n\n" \o o.text \o "\n"
    /\ BatchDone => (report = None <=> Succeeded = {})

\* C15 happens: of two files the first failed and the second was summarized; the
\* report holds the one summary.
C15_Witness ==
    /\ BatchDone
    /\ Len(dispatched) = 2
    /\ ~dispatched[1].ok
    /\ dispatched[2].ok
    /\ Len(results_md) = 1
    /\ report # None

\* C16: progress is reported once after each file, failed or not: the i-th
\* report is i / n; the values increase strictly, stay below 1 before the last
\* file, and the last report of a finished batch is n / n.
C16_ProgressAfterEachFile ==
    /\ Len(progress) = Len(dispatched)
    /\ \A i \in 1..Len(progress) :
          /\ progress[i] = <<i, Len(out)>>
          /\ i < Len(out) => progress[i][1] < progress[i][2]
    /\ \A i, j \in 1..Len(progress) :
          i < j => progress[i][1] * progress[j][2] < progress[j][1] * progress[i][2]
    /\ BatchDone =>
          /\ Len(progress) = Len(out)
          /\ progress[Len(progress)][1] = progress[Len(progress)][2]

\* C16 happens: in a batch of two files the first failed, and the reports were
\* 1/2 and 2/2.
C16_Witness ==
    /\ BatchDone
    /\ ~dispatched[1].ok
    /\ progress = << <<1, 2>>, <<2, 2>> >>

----------------------------------------------------------------------------
(* Claims about the validation of the three handlers, under SpecApp. *)

\* what the validation has to refuse
Unconfigured ==
    \/ env.key = ""
    \/ env.vs = ""
    \/ handler = "ask" /\ Strip(question) = <<>>

\* no remote call was issued by the handler that runs or ran last
NoRemoteCall ==
    /\ attempts = <<>>
    /\ secLog = <<>>
    /\ polls = 0
    /\ requests = <<>>
    /\ lookups = <<>>
    /\ dispatched = <<>>

\* C17: a handler clicked without the credential or without the index
\* identifier, and the Ask handler clicked with a blank question, ends with an
\* error message and issues no remote call.
C17_ValidationBeforeRemoteCalls ==
    (handler # "none" /\ Unconfigured) =>
        /\ pc = "stopped"
        /\ outcome.kind = "error"
        /\ outcome.err \in {"Provide your OpenAI API key in the sidebar.",
                             "Provide your Vector Store ID in the sidebar.",
                             "Please enter a question."}
        /\ NoRemoteCall

\* C17 happens: after a handler whose dispatch created a run, Ask was clicked
\* with a question of whitespace only and stopped with the error message.
C17_Witness ==
    /\ handler = "ask"
    /\ remote.runs > 0
    /\ env = [key |-> "sk", vs |-> "vs"]
    /\ question # <<>>
    /\ outcome = Error("Please enter a question.")
    /\ pc = "stopped"

----------------------------------------------------------------------------
(* Claims about the extractors, under SpecExtract. *)

\* C7: the list a citation extractor returns has no duplicate identifier, and
\* every identifier in it is the file_id of a file_citation annotation of the
\* input (of an assistant message, in the message-list form).
C7_NoDuplicatesNoFabrication ==
    exState = "returned" =>
        /\ NoDuplicates(exOut)
        /\ Range(exOut) \subseteq CitedIds(exInput)

\* C7 happens: an input that cites one identifier twice and another one once,
\* beside an annotation that is no citation, gave a list of the two identifiers.
C7_Witness ==
    /\ exState = "returned"
    /\ Len(exOut) = 2
    /\ Cardinality(Citations(exInput)) > 2
    /\ \E i \in 1..Len(EntriesOf(exInput)) :
          \E j \in 1..Len(ItemsOf(exInput.form, EntriesOf(exInput)[i])) :
             \E a \in Range(AnnsOf(exInput.form, ItemsOf(exInput.form, EntriesOf(exInput)[i])[j])) :
                CitedBy(a) = ""

\* C8: the returned list keeps the first-seen order: an identifier first cited
\* before another one precedes it in the list.
C8_FirstSeenOrder ==
    exState = "returned" =>
        \A i, j \in 1..Len(exOut) :
            (/\ exOut[i] \in CitedIds(exInput)
             /\ exOut[j] \in CitedIds(exInput)
             /\ Before(FirstCited(exInput, exOut[i]), FirstCited(exInput, exOut[j])))
            => i < j

\* C9: with irregular annotations only (missing annotations list, missing
\* citation object, missing identifier, other annotation kind), the returned list
\* holds every identifier the input cites, those after an irregular entry too.
C9_OnlyMalformedExcluded ==
    (exState = "returned" /\ RegularAboveAnnotations(exInput))
        => CitedIds(exInput) \subseteq Range(exOut)

\* C10: no call of a citation extractor raises; an input that cites nothing gives
\* the empty list.
C10_NeverRaises ==
    /\ exState # "raised"
    /\ (exState = "returned" /\ CitedIds(exInput) = {}) => exOut = <<>>

\* C10 happens: an exception was raised inside the try block, and the call
\* returned a list.
C10_Witness ==
    /\ exState = "returned"
    /\ Walk(exInput).exc

====
